---- MODULE Spec2Model ----
(***************************************************************************)
(* One-to-One Feedback Tracker (src/feedback_tracker.py).                  *)
(*                                                                         *)
(* The store is the SQLite file feedback.db with the tables feedback,      *)
(* users and team_members.  Every data-access function opens its own       *)
(* connection, runs its statement(s), commits and closes; a statement is   *)
(* one atomic step of the model.  A browser session runs main() from top   *)
(* to bottom on every interaction (a "script run"); the runs of different  *)
(* sessions interleave between store operations.                           *)
(*                                                                         *)
(* A TEXT value that the code splits and joins (users.assigned_members)    *)
(* is a sequence of tokens, each a member name or the separator ",".       *)
(***************************************************************************)
EXTENDS Integers, Sequences, FiniteSets, TLC

VARIABLES
    users,          \* table users: set of rows, primary key username
    feedback,       \* table feedback: sequence of rows in rowid order
    seq,            \* sqlite_sequence entry of feedback (AUTOINCREMENT)
    team_members,   \* table team_members: set of rows [team, member_name]
    user,           \* st.session_state.user of each session (NoSession = None)
    pc,             \* where each session's script run stands
    call            \* the data-access call a run has in progress or made last

vars == <<users, feedback, seq, team_members, user, pc, call>>

-----------------------------------------------------------------------------
(* Bounds of the model *)

\* feedback rows ever inserted (cap on the AUTOINCREMENT counter)
MaxId == 2

Sessions == {"s1", "s2"}

\* what a session enters on the feedback pages: the texts typed into
\* "Feedback Details" / "Update Feedback Text" and the statuses picked
AnyInput == [texts |-> {"good", "bad"}, statuses |-> {"Pending", "Completed"}]

\* the same pages used with one text and the default status
PlainInput == [texts |-> {"good"}, statuses |-> {"Pending"}]

\* usernames and passwords typed into the login and Manage Reviewers forms
LoginNames == {"admin", "Admin", "bob"}
LoginPasswords == {"admin123", "Admin123", "pw"}
ReviewerNames == {"bob", "Bob", ""}
ReviewerPasswords == {"pw"}

-----------------------------------------------------------------------------
(* Fixed data of the program *)

\* the team selectboxes of Add Feedback and Manage Reviewers
\* (an excerpt of the three teams)
TeamOptions == <<"Hawk Force", "Guarding Tigers">>

\* the roster of populate_team_members, in insertion order
\* (an excerpt of each team's list)
members == <<[team |-> "Hawk Force", member_name |-> "Utsav Chauhan"],
             [team |-> "Hawk Force", member_name |-> "Faisal Iqbal"],
             [team |-> "Guarding Tigers", member_name |-> "Akash Jain"]>>

StatusOptions == <<"Pending", "In Progress", "Completed">>

AdminRow == [username |-> "admin", password |-> "admin123", role |-> "admin",
             team |-> "all", assigned_members |-> <<>>]

-----------------------------------------------------------------------------
(* Strings *)

Range(s) == {s[i] : i \in 1..Len(s)}

\* SQL LOWER() / the lower-casing of a username
LOWER(s) == CASE s = "Admin" -> "admin"
              [] s = "Bob" -> "bob"
              [] OTHER -> s

\* ",".join(list)
RECURSIVE Join(_)
Join(list) ==
    IF list = <<>> THEN <<>>
    ELSE IF Len(list) = 1 THEN <<list[1]>>
    ELSE <<list[1], ",">> \o Join(Tail(list))

\* str.split(","): the pieces between the separators; "" for an empty piece
RECURSIVE SplitFrom(_, _)
SplitFrom(str, piece) ==
    IF str = <<>> THEN <<piece>>
    ELSE IF Head(str) = "," THEN <<piece>> \o SplitFrom(Tail(str), "")
    ELSE SplitFrom(Tail(str), Head(str))

Split(str) == SplitFrom(str, "")

\* [member.strip() for member in str.split(",") if member.strip()]
StripNonEmpty(pieces) == SelectSeq(pieces, LAMBDA m : m # "")

\* the order-preserving sub-lists of a multiselect's options
RECURSIVE Pick(_, _)
Pick(options, S) ==
    IF options = <<>> THEN <<>>
    ELSE (IF Len(options) \in S THEN Pick(SubSeq(options, 1, Len(options) - 1), S)
                                         \o <<options[Len(options)]>>
          ELSE Pick(SubSeq(options, 1, Len(options) - 1), S))

Selections(options) == {Pick(options, S) : S \in SUBSET (1..Len(options))}

-----------------------------------------------------------------------------
(* Data-access functions *)

NoUser == [username |-> "", password |-> "", role |-> "", team |-> "",
           assigned_members |-> <<>>]
\* st.session_state.user = None
NoSession == [username |-> "", role |-> "", team |-> "",
              assigned_members |-> <<>>]
NoCall == [op |-> "none"]

\* a call of a function without a return value, returned
Returned(c) == [op |-> c.op, ret |-> "None"]

\* populate_team_members: INSERT OR IGNORE of every roster entry
populate_team_members(tm) == tm \cup Range(members)

\* get_team_members: SELECT DISTINCT member_name ... WHERE team = ?
get_team_members(team) ==
    LET rows == SelectSeq(members, LAMBDA r : r \in team_members /\ r.team = team)
    IN  [i \in 1..Len(rows) |-> rows[i].member_name]

\* add_admin_user: SELECT COUNT(*) FROM users WHERE username = 'admin'
admin_exists == \E r \in users : r.username = "admin"

\* the check comparing the usernames as they are spelled
check_duplicate_reviewer_exact(username) ==
    \E r \in users : r.username = username

\* check_duplicate_reviewer: COUNT(*) WHERE LOWER(username) = LOWER(?) > 0
check_duplicate_reviewer(username) ==
    \E r \in users : LOWER(r.username) = LOWER(username)

\* the lookup comparing the usernames as they are spelled
validate_user_exact(username, password) ==
    LET rows == {r \in users : r.username = username /\ r.password = password}
    IN  IF rows = {} THEN {[username |-> "", password |-> "", role |-> "",
                            team |-> "", assigned_members |-> <<>>]}
        ELSE rows

\* validate_user: the rows the SELECT matches; fetchone() returns one of them
\* or None
validate_user(username, password) ==
    LET rows == {r \in users : LOWER(r.username) = LOWER(username)
                               /\ r.password = password}
    IN  IF rows = {} THEN {NoUser} ELSE rows

\* INSERT OR REPLACE INTO users: a row with the same primary key is replaced
insert_or_replace_user(row) ==
    {r \in users : r.username # row.username} \cup {row}

\* UPDATE users SET assigned_members = ? WHERE username = ?
set_assigned_members(username, str) ==
    {IF r.username = username THEN [r EXCEPT !.assigned_members = str] ELSE r
        : r \in users}

\* delete_user_mapping
delete_user_mapping(username) == set_assigned_members(username, <<>>)

\* get_feedbacks: SELECT * FROM feedback [WHERE team = ?]
get_feedbacks(table, team) ==
    IF team # "" THEN SelectSeq(table, LAMBDA r : r.team = team)
    ELSE table

\* datetime.now(): the clock of the model ticks once per insert
now == seq

\* the id of a table declared without AUTOINCREMENT: the largest rowid + 1
next_id_rowid ==
    IF feedback = <<>> THEN 1
    ELSE 1 + CHOOSE m \in {feedback[i].id : i \in 1..Len(feedback)} :
                 \A i \in 1..Len(feedback) : feedback[i].id <= m

\* the id an INSERT INTO feedback gets: AUTOINCREMENT never reuses an id
next_id == seq + 1

\* the INSERT leaving the status to the column's default
add_feedback_no_status(table, reviewer, team_member, text, team, status, date) ==
    Append(table, [id |-> seq + 1, reviewer |-> reviewer,
                   team_member |-> team_member, feedback |-> text,
                   team |-> team, status |-> "Pending", date |-> date])

\* add_feedback: the table after the INSERT
add_feedback(table, reviewer, team_member, text, team, status, date) ==
    Append(table, [id |-> next_id, reviewer |-> reviewer,
                   team_member |-> team_member, feedback |-> text,
                   team |-> team, status |-> status, date |-> date])

\* the UPDATE without its WHERE clause
update_feedback_every_row(table, feedback_id, new_status, new_feedback) ==
    [i \in 1..Len(table) |->
        [table[i] EXCEPT !.status = new_status, !.feedback = new_feedback]]

\* update_feedback: UPDATE feedback SET status = ?, feedback = ? WHERE id = ?
update_feedback(table, feedback_id, new_status, new_feedback) ==
    [i \in 1..Len(table) |->
        IF table[i].id = feedback_id
        THEN [table[i] EXCEPT !.status = new_status, !.feedback = new_feedback]
        ELSE table[i]]

\* delete_feedback: DELETE FROM feedback WHERE id = ?
delete_feedback(table, feedback_id) ==
    SelectSeq(table, LAMBDA r : r.id # feedback_id)

-----------------------------------------------------------------------------
(* A script run: main() from its first line *)

Goto(s, where) == pc' = [pc EXCEPT ![s] = where]
Calls(s, c) == call' = [call EXCEPT ![s] = c]

\* the session dict main() builds from the tuple validate_user returns
SessionUser(row) == [username |-> row.username, role |-> row.role,
                     team |-> row.team,
                     assigned_members |-> row.assigned_members]

\* An interaction starts a run: init_db(), then add_admin_user()'s SELECT.
\* With the admin present the run goes on through populate_team_members().
BeginRun(s) ==
    /\ pc[s] = "idle"
    /\ Calls(s, NoCall)
    /\ IF admin_exists
       THEN /\ team_members' = populate_team_members(team_members)
            /\ Goto(s, "page")
       ELSE /\ Goto(s, "admin_insert")
            /\ UNCHANGED team_members
    /\ UNCHANGED <<users, feedback, seq, user>>

\* add_admin_user()'s INSERT.  A row 'admin' committed since the SELECT
\* makes it raise sqlite3.IntegrityError, which ends the run.
AdminInsert(s) ==
    /\ pc[s] = "admin_insert"
    /\ IF admin_exists
       THEN /\ Goto(s, "idle")
            /\ UNCHANGED <<users, team_members>>
       ELSE /\ users' = users \cup {AdminRow}
            /\ team_members' = populate_team_members(team_members)
            /\ Goto(s, "page")
    /\ UNCHANGED <<feedback, seq, user, call>>

\* The run draws its page and ends with no button pressed (this is also
\* the View Feedback page, and "Delete Feedback" pressed by a non-admin).
Render(s) ==
    /\ pc[s] = "page"
    /\ Goto(s, "idle")
    /\ UNCHANGED <<users, feedback, seq, team_members, user, call>>

\* The login form, submitted
Login(s) ==
    /\ pc[s] = "page"
    /\ user[s] = NoSession
    /\ \E username \in LoginNames, password \in LoginPasswords :
       \E row \in validate_user(username, password) :
          /\ Calls(s, [op |-> "validate_user", username |-> username,
                       password |-> password, ret |-> row])
          /\ user' = [user EXCEPT ![s] =
                         IF row # NoUser THEN SessionUser(row) ELSE NoSession]
    /\ Goto(s, "idle")
    /\ UNCHANGED <<users, feedback, seq, team_members>>

\* The sidebar's Logout button
Logout(s) ==
    /\ pc[s] = "page"
    /\ user[s] # NoSession
    /\ user' = [user EXCEPT ![s] = NoSession]
    /\ Goto(s, "idle")
    /\ UNCHANGED <<users, feedback, seq, team_members, call>>

-----------------------------------------------------------------------------
(* Add Feedback *)

\* the options with an empty assigned_members read as "no restriction"
SelectableMembers_unrestricted(u, team) ==
    LET all_team_members == get_team_members(team)
        assigned_members_list == StripNonEmpty(Split(u.assigned_members))
    IN  IF u.role = "reviewer" /\ assigned_members_list # <<>>
        THEN SelectSeq(all_team_members,
                       LAMBDA m : m \in Range(assigned_members_list))
        ELSE all_team_members

\* the options of "Select Team Member" for a session and a team
SelectableMembers(u, team) ==
    LET all_team_members == get_team_members(team)
        assigned_members_list == StripNonEmpty(Split(u.assigned_members))
    IN  IF u.role = "reviewer"
        THEN SelectSeq(all_team_members,
                       LAMBDA m : m \in Range(assigned_members_list))
        ELSE all_team_members

\* the team of the page: fixed for a reviewer, chosen by an admin
PageTeams(u) ==
    IF u.role # "admin" THEN {u.team} ELSE Range(TeamOptions)

\* inserts that runs have under way
PendingInserts == Cardinality({s \in Sessions : pc[s] = "write"
                                                /\ call[s].op = "add_feedback"})

\* The page reads the roster; "Submit Feedback" sends the run on to
\* add_feedback(), and with no option to select the page shows its warning.
AddFeedbackPage(s, form) ==
    /\ pc[s] = "page"
    /\ user[s] # NoSession
    /\ \E team \in PageTeams(user[s]) :
       LET team_members_shown == SelectableMembers(user[s], team) IN
       \/ /\ seq + PendingInserts < MaxId
          /\ \E team_member \in Range(team_members_shown),
                text \in form.texts, status \in form.statuses :
                Calls(s, [op |-> "add_feedback",
                          reviewer |-> user[s].username,
                          team_member |-> team_member, feedback |-> text,
                          team |-> team, status |-> status])
          /\ Goto(s, "write")
       \/ /\ Calls(s, [op |-> "get_team_members", team |-> team,
                       ret |-> get_team_members(team),
                       shown |-> team_members_shown])
          /\ Goto(s, "idle")
    /\ UNCHANGED <<users, feedback, seq, team_members, user>>

\* add_feedback(): the INSERT, dated datetime.now()
AddFeedback(s) ==
    /\ pc[s] = "write"
    /\ call[s].op = "add_feedback"
    /\ feedback' = add_feedback(feedback, call[s].reviewer,
                                call[s].team_member, call[s].feedback,
                                call[s].team, call[s].status, now)
    /\ seq' = next_id
    /\ Calls(s, Returned(call[s]))
    /\ Goto(s, "idle")
    /\ UNCHANGED <<users, team_members, user>>

-----------------------------------------------------------------------------
(* Update/Delete Feedback *)

\* the page offering every row to everyone
VisibleFeedback_unfiltered(u) == get_feedbacks(feedback, "")

\* the rows the page offers: every row for an admin, the session's own
\* rows for anyone else
VisibleFeedback(u) ==
    IF u.role = "admin" THEN get_feedbacks(feedback, "")
    ELSE SelectSeq(get_feedbacks(feedback, ""),
                   LAMBDA r : r.reviewer = u.username)

\* whether pressing "Delete Feedback" deletes
MayDelete(u) == u.role = "admin"

\* The page reads the table, and a button sends the run on to the write.
UpdateDeletePage(s, form) ==
    /\ pc[s] = "page"
    /\ user[s] # NoSession
    /\ \E row \in Range(VisibleFeedback(user[s])) :
       \/ \E new_feedback \in form.texts, new_status \in form.statuses :
             Calls(s, [op |-> "update_feedback", id |-> row.id,
                       status |-> new_status, feedback |-> new_feedback])
       \/ /\ MayDelete(user[s])
          /\ Calls(s, [op |-> "delete_feedback", id |-> row.id])
    /\ Goto(s, "write")
    /\ UNCHANGED <<users, feedback, seq, team_members, user>>

UpdateFeedback(s) ==
    /\ pc[s] = "write"
    /\ call[s].op = "update_feedback"
    /\ feedback' = update_feedback(feedback, call[s].id, call[s].status,
                                   call[s].feedback)
    /\ Calls(s, Returned(call[s]))
    /\ Goto(s, "idle")
    /\ UNCHANGED <<users, seq, team_members, user>>

DeleteFeedback(s) ==
    /\ pc[s] = "write"
    /\ call[s].op = "delete_feedback"
    /\ feedback' = delete_feedback(feedback, call[s].id)
    /\ Calls(s, Returned(call[s]))
    /\ Goto(s, "idle")
    /\ UNCHANGED <<users, seq, team_members, user>>

-----------------------------------------------------------------------------
(* Manage Reviewers *)

\* st.multiselect(options, default) raises when a default is no option
DefaultsOk(options, default) == Range(default) \subseteq Range(options)

\* the default of "Assign Team Members" for the username typed in
ReviewerDefault(reviewer_username) ==
    IF \E r \in users : r.username = reviewer_username
    THEN LET r == CHOOSE r \in users : r.username = reviewer_username
         IN  StripNonEmpty(IF r.assigned_members # <<>>
                           THEN Split(r.assigned_members) ELSE <<>>)
    ELSE <<>>

\* "Save Reviewer": add_user() up to the return of check_duplicate_reviewer()
SaveReviewerPage(s) ==
    /\ pc[s] = "page"
    /\ user[s].role = "admin"
    /\ \E reviewer_username \in ReviewerNames, password \in ReviewerPasswords,
          team \in Range(TeamOptions) :
       /\ DefaultsOk(get_team_members(team), ReviewerDefault(reviewer_username))
       /\ \E assigned_members \in Selections(get_team_members(team)) :
          LET row == [username |-> reviewer_username, password |-> password,
                      role |-> "reviewer", team |-> team,
                      assigned_members |-> Join(assigned_members)]
          IN  IF reviewer_username = ""
              THEN \* "Please fill in all fields."
                   /\ Goto(s, "idle")
                   /\ UNCHANGED call
              ELSE IF check_duplicate_reviewer(reviewer_username)
              THEN \* add_user returns False: "... already exists."
                   /\ Calls(s, [op |-> "add_user", row |-> row, ret |-> FALSE])
                   /\ Goto(s, "idle")
              ELSE /\ Calls(s, [op |-> "add_user", row |-> row])
                   /\ Goto(s, "write")
    /\ UNCHANGED <<users, feedback, seq, team_members, user>>

\* add_user()'s INSERT OR REPLACE, after which it returns True
AddUserInsert(s) ==
    /\ pc[s] = "write"
    /\ call[s].op = "add_user"
    /\ users' = insert_or_replace_user(call[s].row)
    /\ Calls(s, [op |-> "add_user", row |-> call[s].row, ret |-> TRUE])
    /\ Goto(s, "idle")
    /\ UNCHANGED <<feedback, seq, team_members, user>>

-----------------------------------------------------------------------------
(* Manage Team Mapping *)

\* users_df[users_df['role'] == 'reviewer']
Reviewers == {r \in users : r.role = "reviewer"}

\* The page reads the users, and a button sends the run on to the write.
MappingPage(s) ==
    /\ pc[s] = "page"
    /\ user[s].role = "admin"
    /\ \E r \in Reviewers :
       LET team_members_shown == get_team_members(r.team)
           current_mapping == r.assigned_members
       IN  /\ DefaultsOk(team_members_shown,
                         IF current_mapping # <<>> THEN Split(current_mapping)
                         ELSE <<>>)
           /\ \/ \E assigned_members \in Selections(team_members_shown) :
                    Calls(s, [op |-> "update_mapping", username |-> r.username,
                              assigned_members |->
                                 IF assigned_members # <<>>
                                 THEN Join(assigned_members) ELSE <<>>])
              \/ Calls(s, [op |-> "delete_user_mapping",
                           username |-> r.username])
    /\ Goto(s, "write")
    /\ UNCHANGED <<users, feedback, seq, team_members, user>>

\* "Update Mapping": the UPDATE of users.assigned_members
UpdateMapping(s) ==
    /\ pc[s] = "write"
    /\ call[s].op = "update_mapping"
    /\ users' = set_assigned_members(call[s].username, call[s].assigned_members)
    /\ Calls(s, Returned(call[s]))
    /\ Goto(s, "idle")
    /\ UNCHANGED <<feedback, seq, team_members, user>>

\* "Delete Mapping": delete_user_mapping()
DeleteMapping(s) ==
    /\ pc[s] = "write"
    /\ call[s].op = "delete_user_mapping"
    /\ users' = delete_user_mapping(call[s].username)
    /\ Calls(s, Returned(call[s]))
    /\ Goto(s, "idle")
    /\ UNCHANGED <<feedback, seq, team_members, user>>

-----------------------------------------------------------------------------
(* Specifications *)

\* the store of a first start: init_db() has created the empty tables
Init ==
    /\ users = {}
    /\ feedback = <<>>
    /\ seq = 0
    /\ team_members = {}
    /\ user = [s \in Sessions |-> NoSession]
    /\ pc = [s \in Sessions |-> "idle"]
    /\ call = [s \in Sessions |-> NoCall]

\* a reviewer as "Save Reviewer" creates it
BobRow == [username |-> "bob", password |-> "pw", role |-> "reviewer",
           team |-> "Hawk Force", assigned_members |-> <<"Utsav Chauhan">>]

\* the store later on: the admin has created a reviewer, nobody is logged in
InitSeeded ==
    /\ users = {AdminRow, BobRow}
    /\ feedback = <<>>
    /\ seq = 0
    /\ team_members = populate_team_members({})
    /\ user = [s \in Sessions |-> NoSession]
    /\ pc = [s \in Sessions |-> "idle"]
    /\ call = [s \in Sessions |-> NoCall]

\* ... and later: an admin has logged in, and an admin or the reviewer
InitLoggedIn ==
    /\ users = {AdminRow, BobRow}
    /\ feedback = <<>>
    /\ seq = 0
    /\ team_members = populate_team_members({})
    /\ \E r \in users :
          user = [s \in Sessions |-> IF s = "s1" THEN SessionUser(AdminRow)
                                     ELSE SessionUser(r)]
    /\ pc = [s \in Sessions |-> "idle"]
    /\ call = [s \in Sessions |-> NoCall]

\* accounts: start-up, login and Manage Reviewers
NextUsers ==
    \E s \in Sessions :
        \/ BeginRun(s) \/ AdminInsert(s) \/ Render(s) \/ Login(s) \/ Logout(s)
        \/ SaveReviewerPage(s) \/ AddUserInsert(s)

SpecUsers == Init /\ [][NextUsers]_vars

\* who may give feedback on whom: login, Manage Team Mapping, Add Feedback
NextMapping ==
    \E s \in Sessions :
        \/ BeginRun(s) \/ Render(s) \/ Login(s) \/ Logout(s)
        \/ MappingPage(s) \/ UpdateMapping(s) \/ DeleteMapping(s)
        \/ AddFeedbackPage(s, PlainInput) \/ AddFeedback(s)

SpecMapping == InitSeeded /\ [][NextMapping]_vars

\* the feedback table: Add Feedback and Update/Delete Feedback
NextFeedback ==
    \E s \in Sessions :
        \/ BeginRun(s) \/ Render(s)
        \/ AddFeedbackPage(s, AnyInput) \/ AddFeedback(s)
        \/ UpdateDeletePage(s, AnyInput) \/ UpdateFeedback(s)
        \/ DeleteFeedback(s)

SpecFeedback == InitLoggedIn /\ [][NextFeedback]_vars

\* the whole program; the stores InitSeeded and InitLoggedIn start from are
\* states of it (SeededReached, LoggedInReached)
Next ==
    \E s \in Sessions :
        \/ BeginRun(s) \/ AdminInsert(s) \/ Render(s) \/ Login(s) \/ Logout(s)
        \/ AddFeedbackPage(s, AnyInput) \/ AddFeedback(s)
        \/ UpdateDeletePage(s, AnyInput) \/ UpdateFeedback(s)
        \/ DeleteFeedback(s)
        \/ SaveReviewerPage(s) \/ AddUserInsert(s)
        \/ MappingPage(s) \/ UpdateMapping(s) \/ DeleteMapping(s)

Spec == Init /\ [][Next]_vars

TypeOK ==
    /\ seq \in 0..MaxId
    /\ Len(feedback) <= seq
    /\ \A s \in Sessions : pc[s] \in {"idle", "admin_insert", "page", "write"}

Quiet == /\ feedback = <<>>
         /\ \A s \in Sessions : pc[s] = "idle" /\ call[s] = NoCall

SeededReached ==
    /\ Quiet
    /\ users = {AdminRow, BobRow}
    /\ \A s \in Sessions : user[s] = NoSession

LoggedInReached ==
    /\ Quiet
    /\ users = {AdminRow, BobRow}
    /\ user["s1"] = SessionUser(AdminRow)
    /\ user["s2"] = SessionUser(BobRow)

-----------------------------------------------------------------------------
(* Properties *)

Ids(table) == {table[i].id : i \in 1..Len(table)}

\* the step is one of session s
Acts(s) == pc'[s] # pc[s]

\* session s calls add_user() in this step
CallsAddUser(s) == pc[s] = "page" /\ call'[s].op = "add_user"

C2_UniqueUsernames ==
    \A r1, r2 \in users :
        LOWER(r1.username) = LOWER(r2.username) => r1 = r2

\* C10: add_user() with a username that is already in the table succeeds
\* (and overwrites the row).
C10_Upsert ==
    [][\A s \in Sessions :
          (/\ CallsAddUser(s)
           /\ \E r \in users : r.username = call'[s].row.username)
          => call'[s] # [op |-> "add_user", row |-> call'[s].row,
                         ret |-> FALSE]]_vars

\* C5: validate_user(u, p) returns a row whose username equals u under
\* lower-casing and whose password is p, None exactly when there is none,
\* and changes nothing in the store.
C5_ValidateUser ==
    [][\A s \in Sessions :
          (pc[s] = "page" /\ call'[s].op = "validate_user")
          => LET c == call'[s]
                 matching == {r \in users :
                                 /\ LOWER(r.username) = LOWER(c.username)
                                 /\ r.password = c.password}
             IN  /\ (matching = {}) <=> (c.ret = NoUser)
                 /\ matching # {} => c.ret \in matching
                 /\ (AdminRow \in users /\ c.username \in {"Admin", "admin"}
                        /\ c.password = "admin123") => c.ret = AdminRow
                 /\ (c.username = "admin" /\ c.password = "Admin123")
                        => c.ret = NoUser
                 /\ UNCHANGED <<users, feedback, seq, team_members>>]_vars

\* the seeded admin found under another spelling of its name in one session,
\* and refused for another spelling of its password in the other
C5_Witness ==
    \E s1, s2 \in Sessions :
        /\ call[s1] = [op |-> "validate_user", username |-> "Admin",
                       password |-> "admin123", ret |-> AdminRow]
        /\ call[s2] = [op |-> "validate_user", username |-> "admin",
                       password |-> "Admin123", ret |-> NoUser]

-----------------------------------------------------------------------------
\* session s inserts a feedback row in this step
InsertsFeedback(s) ==
    pc[s] = "write" /\ call[s].op = "add_feedback" /\ Acts(s)

\* the names a stored assigned_members value holds
StoredAssigned(r) == Range(StripNonEmpty(Split(r.assigned_members)))

\* C3: a row a reviewer inserts names a member of the assigned_members
\* stored for the reviewer at that moment, when that list is not empty.
C3_WithinStoredMapping ==
    [][\A s \in Sessions :
          (InsertsFeedback(s) /\ user[s].role = "reviewer")
          => \A r \in users :
                (r.username = user[s].username /\ StoredAssigned(r) # {})
                => feedback'[Len(feedback')].team_member \in StoredAssigned(r)]_vars

\* a reviewer's session that holds an empty assigned_members and is about
\* to draw a page
EmptyMapping(s) ==
    /\ user[s].role = "reviewer"
    /\ user[s].assigned_members = <<>>

-----------------------------------------------------------------------------
\* session s deletes / updates a feedback row in this step
Deletes(s) == pc[s] = "write" /\ call[s].op = "delete_feedback" /\ Acts(s)
Updates(s) == pc[s] = "write" /\ call[s].op = "update_feedback" /\ Acts(s)

\* C6: an id that was assigned and is in the table no more never comes
\* back in get_feedbacks(); delete_feedback(id) removes the id, and with
\* the id not in the table it returns normally and changes no row.
C6_DeletedStaysDeleted ==
    [][/\ \A i \in 1..seq :
             i \notin Ids(feedback) => i \notin Ids(get_feedbacks(feedback', ""))
       /\ \A s \in Sessions :
             Deletes(s)
             => /\ call[s].id \notin Ids(get_feedbacks(feedback', ""))
                /\ pc'[s] = "idle"
                /\ call[s].id \notin Ids(feedback) => feedback' = feedback]_vars

\* id 1 was deleted, a row was added since, and another delete of id 1 is
\* under way
C6_Witness ==
    /\ feedback # <<>>
    /\ 1 \notin Ids(feedback)
    /\ \E s \in Sessions :
          /\ pc[s] = "write"
          /\ call[s] = [op |-> "delete_feedback", id |-> 1]

\* C7: add_feedback() adds exactly one row: get_feedbacks(team) is what it
\* was plus a last row holding the arguments under a new id, and
\* get_feedbacks(t) is what it was for every other team t.
C7_AddFeedback ==
    [][\A s \in Sessions :
          InsertsFeedback(s)
          => LET c == call[s]
                 before == get_feedbacks(feedback, c.team)
                 after == get_feedbacks(feedback', c.team)
                 new == after[Len(after)]
             IN  /\ Len(feedback') = Len(feedback) + 1
                 /\ Len(after) = Len(before) + 1
                 /\ SubSeq(after, 1, Len(before)) = before
                 /\ new.reviewer = c.reviewer
                 /\ new.team_member = c.team_member
                 /\ new.feedback = c.feedback
                 /\ new.team = c.team
                 /\ new.status = c.status
                 /\ new.id \notin Ids(feedback)
                 /\ \A t \in Range(TeamOptions) \ {c.team} :
                       get_feedbacks(feedback', t) = get_feedbacks(feedback, t)]_vars

\* rows of two teams, the later one not of the default status, its insert
\* just returned
C7_Witness ==
    /\ Len(feedback) = 2
    /\ feedback[1].team # feedback[2].team
    /\ feedback[2].status = "Completed"
    /\ \E s \in Sessions :
          pc[s] = "idle" /\ call[s] = [op |-> "add_feedback", ret |-> "None"]

\* C8: update_feedback(id, s, f) sets status and feedback of the row with
\* that id and nothing else in the store; without such a row the store is
\* unchanged; a second application changes nothing more.
C8_UpdateFeedback ==
    [][\A s \in Sessions :
          Updates(s)
          => LET c == call[s] IN
             /\ Len(feedback') = Len(feedback)
             /\ \A i \in 1..Len(feedback) :
                   LET old == feedback[i]
                       new == feedback'[i]
                   IN  IF old.id = c.id
                       THEN /\ new.status = c.status
                            /\ new.feedback = c.feedback
                            /\ new.id = old.id
                            /\ new.reviewer = old.reviewer
                            /\ new.team_member = old.team_member
                            /\ new.team = old.team
                            /\ new.date = old.date
                       ELSE new = old
             /\ c.id \notin Ids(feedback) => feedback' = feedback
             /\ UNCHANGED <<users, team_members, seq>>
             /\ update_feedback(feedback', c.id, c.status, c.feedback)
                   = feedback']_vars

\* an update has returned, and one is under way that changes both columns
\* of one of two rows
C8_Witness ==
    \E s1, s2 \in Sessions :
        /\ call[s1] = [op |-> "update_feedback", ret |-> "None"]
        /\ pc[s2] = "write"
        /\ call[s2].op = "update_feedback"
        /\ Len(feedback) = 2
        /\ \E i \in 1..2 :
              /\ feedback[i].id = call[s2].id
              /\ feedback[i].status # call[s2].status
              /\ feedback[i].feedback # call[s2].feedback

\* C9: only a step of an admin's session removes a row, and a step of a
\* reviewer's session leaves every row of another author as it is.
C9_RoleLimits ==
    [][\A s \in Sessions :
          Acts(s)
          => /\ ~(Ids(feedback) \subseteq Ids(feedback'))
                   => user[s].role = "admin"
             /\ user[s].role = "reviewer"
                   => \A i \in 1..Len(feedback) :
                         feedback[i].reviewer # user[s].username
                         => /\ i <= Len(feedback')
                            /\ feedback'[i] = feedback[i]]_vars

\* the reviewer has updated a row of its own next to a row of the admin
C9_Witness ==
    \E s \in Sessions :
        /\ user[s].role = "reviewer"
        /\ pc[s] = "idle"
        /\ call[s] = [op |-> "update_feedback", ret |-> "None"]
        /\ \E i, j \in 1..Len(feedback) :
              /\ feedback[i].reviewer = user[s].username
              /\ feedback[j].reviewer = "admin"

====
